---------------------------- MODULE Spec2Model ----------------------------
(***************************************************************************)
(* A model of the asynchronous Esplora client (src/src/async.rs) and of    *)
(* the constants and error taxonomy it uses (src/src/lib.rs): the retry    *)
(* loop get_with_retry, the four response decoders with their optional     *)
(* variants, the POST path of broadcast, and the endpoint methods.         *)
(*                                                                         *)
(* A call is a state machine: "idle" -> "send" -> "await" -> ("sleep" ->   *)
(* "send" ...) -> "body" -> "done".  The server and the transport are the  *)
(* environment: every awaited request ends with a response status drawn    *)
(* from serverStatuses or with a transport failure, and reading a body     *)
(* yields one of Bodies or a transport failure.                            *)
(***************************************************************************)
EXTENDS Integers, Sequences, FiniteSets, TLC

(***************************************************************************)
(* Bounds of the model.                                                    *)
(***************************************************************************)
\* Largest max_retries a client is configured with under Spec.
MaxRetriesBound == 3
\* Largest max_retries under SpecFixed (a server repeating one status).
DeepRetries == 67
\* Number of calls that exist on the client.
NumCalls == 2
\* Number of distinct transaction ids a caller may query.
NumTxids == 2
\* Number of distinct heights blocks is called with.
NumHeights == 1
\* Largest of the small confirmation targets convert_fee_rate is given.
MaxTarget == 4
\* Largest max_retries when several calls run interleaved.
ConcRetries == 1

CallIds == 1..NumCalls
Txids == 1..NumTxids

(***************************************************************************)
(* std::time::Duration: a u64 of seconds and a u32 of nanoseconds.  The    *)
(* u64 is kept as four little-endian limbs of 16 bits so that its width    *)
(* (and the overflow of `delay *= 2`) is that of the program.              *)
(***************************************************************************)
LimbBase == 2 ^ 16
NANOS_PER_SEC == 1000000000
NANOS_PER_MILLI == 1000000
MILLIS_PER_SEC == 1000

\* A natural below 2^31 as a u64.
U64(n) == << n % LimbBase, n \div LimbBase, 0, 0 >>

RECURSIVE MulFrom(_, _, _, _)
\* Limbs i.. of x times rhs plus carry: the digits and the carry out.
MulFrom(x, rhs, i, carry) ==
    IF i > Len(x) THEN [digits |-> << >>, carry |-> carry]
    ELSE LET p == x[i] * rhs + carry
             rest == MulFrom(x, rhs, i + 1, p \div LimbBase)
         IN [digits |-> << p % LimbBase >> \o rest.digits, carry |-> rest.carry]

RECURSIVE AddFrom(_, _, _)
\* Limbs i.. of x plus carry: the digits and the carry out.
AddFrom(x, i, carry) ==
    IF i > Len(x) THEN [digits |-> << >>, carry |-> carry]
    ELSE LET s == x[i] + carry
             rest == AddFrom(x, i + 1, s \div LimbBase)
         IN [digits |-> << s % LimbBase >> \o rest.digits, carry |-> rest.carry]

\* u64::checked_mul and u64::checked_add: None on overflow.
U64CheckedMul(x, rhs) ==
    LET r == MulFrom(x, rhs, 1, 0) IN [some |-> r.carry = 0, val |-> r.digits]

U64CheckedAdd(x, n) ==
    LET r == AddFrom(x, 1, n) IN [some |-> r.carry = 0, val |-> r.digits]

\* Duration::from_millis.
DurationFromMillis(ms) ==
    [secs |-> U64(ms \div MILLIS_PER_SEC),
     nanos |-> (ms % MILLIS_PER_SEC) * NANOS_PER_MILLI]

\* Duration::checked_mul(rhs): None when the seconds overflow the u64.
DurationCheckedMul(d, rhs) ==
    LET total_nanos == d.nanos * rhs
        extra_secs == total_nanos \div NANOS_PER_SEC
        nanos == total_nanos % NANOS_PER_SEC
        s == U64CheckedMul(d.secs, rhs)
        secs == U64CheckedAdd(s.val, extra_secs)
    IN [some |-> s.some /\ secs.some,
        val |-> [secs |-> secs.val, nanos |-> nanos]]

\* Duration::as_millis: a u128, here eight limbs.
DurationAsMillis(d) ==
    LET wide == d.secs \o << 0, 0, 0, 0 >>
        ms == MulFrom(wide, MILLIS_PER_SEC, 1, 0).digits
    IN AddFrom(ms, 1, d.nanos \div NANOS_PER_MILLI).digits

(***************************************************************************)
(* Constants of lib.rs.                                                    *)
(***************************************************************************)
RETRYABLE_ERROR_CODES == {429, 500, 503}

BASE_BACKOFF_MILLIS == DurationFromMillis(256)

DEFAULT_MAX_RETRIES == 6

\* Mutant: every 5xx status is retried.
is_status_retryable_any5xx(status) == status = 429 \/ status >= 500

is_status_retryable(status) == status \in RETRYABLE_ERROR_CODES

\* reqwest::StatusCode::is_success: the 2xx range.
is_success(status) == status >= 200 /\ status < 300


(***************************************************************************)
(* convert_fee_rate of lib.rs.  The HashMap<u16, f64> is the sequence of   *)
(* its entries in the order into_iter yields them (any order, the keys     *)
(* distinct); a rate is an integral f64 below 2^31.                        *)
(***************************************************************************)
U16Max == 65535
F32Precision == 24

RECURSIVE BitLen(_)
\* The number of binary digits of n.
BitLen(n) == IF n = 0 THEN 0 ELSE 1 + BitLen(n \div 2)

\* `v as f32`: v rounded to the 24 significant bits of an f32, ties to even.
F64AsF32(v) ==
    LET bits == BitLen(v)
    IN IF bits <= F32Precision THEN v
       ELSE LET step == 2 ^ (bits - F32Precision)
                q == v \div step
                r == v % step
                up == (2 * r > step) \/ (2 * r = step /\ q % 2 = 1)
            IN (IF up THEN q + 1 ELSE q) * step

None == [some |-> FALSE, val |-> 0]
Some(v) == [some |-> TRUE, val |-> v]

\* Iterator::filter with the closure |(k, _)| *k as usize <= target.
FilterAtMost(entries, target) == SelectSeq(entries, LAMBDA e : e.k <= target)

\* Mutant's filter: the keys strictly below target.
FilterBelow(entries, target) == SelectSeq(entries, LAMBDA e : e.k < target)

RECURSIVE MaxByKey(_, _)
\* Iterator::max_by_key(|(k, _)| *k): the last element of maximum key.
MaxByKey(entries, best) ==
    IF entries = << >> THEN best
    ELSE LET h == Head(entries)
         IN MaxByKey(Tail(entries),
                     IF ~best.some \/ h.k >= best.val.k THEN Some(h) ELSE best)

\* Mutant: a key equal to target is not accepted.
convert_fee_rate_below(target, estimates) ==
    LET m == MaxByKey(FilterBelow(estimates, target), [some |-> FALSE, val |-> [k |-> 0, v |-> 0]])
    IN IF m.some THEN Some(F64AsF32(m.val.v)) ELSE None

convert_fee_rate(target, estimates) ==
    LET m == MaxByKey(FilterAtMost(estimates, target), [some |-> FALSE, val |-> [k |-> 0, v |-> 0]])
    IN IF m.some THEN Some(F64AsF32(m.val.v)) ELSE None

(***************************************************************************)
(* Bodies are byte sequences; text is the same bytes read as ASCII.        *)
(***************************************************************************)
\* The value of one hex digit, -1 for any other character.
HexVal(ch) ==
    IF ch >= 48 /\ ch <= 57 THEN ch - 48
    ELSE IF ch >= 97 /\ ch <= 102 THEN ch - 87
    ELSE IF ch >= 65 /\ ch <= 70 THEN ch - 55
    ELSE -1

HexChar(v) == IF v < 10 THEN 48 + v ELSE 87 + v

\* amplify::hex::FromHex for Vec<u8>: fails on an odd length or a non-digit.
FromHex(text) ==
    IF Len(text) % 2 = 1 \/ (\E i \in 1..Len(text) : HexVal(text[i]) < 0)
    THEN [ok |-> FALSE, val |-> << >>]
    ELSE [ok |-> TRUE,
          val |-> [i \in 1..(Len(text) \div 2) |->
                      16 * HexVal(text[2 * i - 1]) + HexVal(text[2 * i])]]

\* amplify::hex::ToHex: two lowercase digits per byte.
ToHex(bytes) ==
    [i \in 1..(2 * Len(bytes)) |->
        IF i % 2 = 1 THEN HexChar(bytes[(i + 1) \div 2] \div 16)
        ELSE HexChar(bytes[i \div 2] % 16)]

(***************************************************************************)
(* The consensus codec lives in the bp crate.  Its stand-in is a length    *)
(* prefix: an object is its payload bytes, encoded as the payload length   *)
(* followed by the payload; decoding fails unless the first byte is the    *)
(* number of bytes that follow it.                                         *)
(***************************************************************************)
ConsensusSerialize(obj) == << Len(obj) >> \o obj

ConsensusDeserialize(bytes) ==
    IF Len(bytes) >= 1 /\ bytes[1] = Len(bytes) - 1
    THEN [ok |-> TRUE, val |-> Tail(bytes)]
    ELSE [ok |-> FALSE, val |-> << >>]

(***************************************************************************)
(* serde_json stands behind Response::json.  Its stand-in knows three      *)
(* documents: "{}" for an object matching the schema, "[]" for the empty   *)
(* array and "[1]" for an array of one element.                            *)
(***************************************************************************)
JsonObject == << 123, 125 >>
JsonEmptyArray == << 91, 93 >>
JsonOneArray == << 91, 49, 93 >>

\* The documents that deserialize to a type of the given shape.
JsonDeserialize(bytes, shape) ==
    IF shape = "object" /\ bytes = JsonObject THEN [ok |-> TRUE, val |-> bytes]
    ELSE IF shape = "array" /\ bytes = JsonEmptyArray THEN [ok |-> TRUE, val |-> << >>]
    ELSE IF shape = "array" /\ bytes = JsonOneArray THEN [ok |-> TRUE, val |-> << bytes[2] >>]
    ELSE [ok |-> FALSE, val |-> << >>]

(***************************************************************************)
(* u32::from_str and the 32-byte hash from_str.                            *)
(***************************************************************************)
U32MaxDigits == << 52, 50, 57, 52, 57, 54, 55, 50, 57, 53 >>
HashBytes == 32

RECURSIVE StripZeros(_)
StripZeros(s) ==
    IF Len(s) > 1 /\ s[1] = 48 THEN StripZeros(Tail(s)) ELSE s

\* Digit strings of equal length: a > b.
DigitsGreater(a, b) ==
    \E i \in 1..Len(a) : a[i] > b[i] /\ \A j \in 1..(i - 1) : a[j] = b[j]

\* u32::from_str: an optional '+', at least one digit, at most u32::MAX.
\* The value is kept as its digits without leading zeros.
U32FromStr(text) ==
    LET s == IF Len(text) > 0 /\ text[1] = 43 THEN Tail(text) ELSE text
        z == StripZeros(s)
    IN IF s = << >> \/ (\E i \in 1..Len(s) : s[i] < 48 \/ s[i] > 57)
          \/ Len(z) > Len(U32MaxDigits)
          \/ (Len(z) = Len(U32MaxDigits) /\ DigitsGreater(z, U32MaxDigits))
       THEN [ok |-> FALSE, val |-> << >>]
       ELSE [ok |-> TRUE, val |-> z]

\* BlockHash::from_str / Txid::from_str: hex of exactly 32 bytes.
HashFromStr(text) ==
    LET h == FromHex(text)
    IN IF h.ok /\ Len(h.val) = HashBytes THEN h ELSE [ok |-> FALSE, val |-> << >>]

(***************************************************************************)
(* Result<T, Error> of lib.rs, one record shape for every variant.         *)
(***************************************************************************)
Res(tag, status, message, value, txid, kind) ==
    [tag |-> tag, status |-> status, message |-> message, value |-> value,
     txid |-> txid, kind |-> kind]

Pending == Res("Pending", 0, << >>, << >>, 0, "")
Ok(v) == Res("Ok", 0, << >>, v, 0, "")
SomeOf(v) == Res("Some", 0, << >>, v, 0, "")
NoneOf == Res("None", 0, << >>, << >>, 0, "")
\* Error::Reqwest: kind is "request" (send failed), "body" (reading the body
\* failed) or "decode" (the JSON did not deserialize).
ErrReqwest(kind) == Res("Reqwest", 0, << >>, << >>, 0, kind)
ErrHttpResponse(status, message) == Res("HttpResponse", status, message, << >>, 0, "")
ErrInvalidServerData == Res("InvalidServerData", 0, << >>, << >>, 0, "")
ErrParsing == Res("Parsing", 0, << >>, << >>, 0, "")
ErrBitcoinEncoding == Res("BitcoinEncoding", 0, << >>, << >>, 0, "")
ErrHex == Res("Hex", 0, << >>, << >>, 0, "")
ErrTransactionNotFound(txid) == Res("TransactionNotFound", 0, << >>, << >>, txid, "")

ErrorTags == {"Reqwest", "HttpResponse", "InvalidServerData", "Parsing",
              "BitcoinEncoding", "Hex", "TransactionNotFound"}
IsErr(r) == r.tag \in ErrorTags

\* What get_with_retry hands to its caller: Ok(response) or Err(Reqwest).
Dispatched(status) == [ok |-> TRUE, status |-> status]
DispatchFailed == [ok |-> FALSE, status |-> 0]
\* What awaiting a body yields: the bytes or a transport failure.
BodyOf(bytes) == [ok |-> TRUE, bytes |-> bytes]
BodyFailed == [ok |-> FALSE, bytes |-> << >>]

(***************************************************************************)
(* The response decoders of AsyncClient.  Each takes what get_with_retry   *)
(* returned (disp) and what reading the body yields (body).                *)
(***************************************************************************)
\* Mutant: the body text of a non-2xx response is dropped.
HttpResponseErrorNoMessage(status, body) ==
    IF body.ok THEN ErrHttpResponse(status, << >>) ELSE ErrReqwest("body")

\* The non-2xx branch shared by every decoder: the body text is read (and
\* the read may fail) to build Error::HttpResponse.
HttpResponseError(status, body) ==
    IF body.ok THEN ErrHttpResponse(status, body.bytes) ELSE ErrReqwest("body")

get_response(disp, body) ==
    IF ~disp.ok THEN ErrReqwest("request")
    ELSE IF ~is_success(disp.status) THEN HttpResponseError(disp.status, body)
    ELSE IF ~body.ok THEN ErrReqwest("body")
    ELSE LET d == ConsensusDeserialize(body.bytes)
         IN IF d.ok THEN Ok(d.val) ELSE ErrInvalidServerData

get_opt_response(disp, body) ==
    LET r == get_response(disp, body)
    IN IF r.tag = "Ok" THEN SomeOf(r.value)
       ELSE IF r.tag = "HttpResponse" /\ r.status = 404 THEN NoneOf
       ELSE r

get_response_json(disp, body, shape) ==
    IF ~disp.ok THEN ErrReqwest("request")
    ELSE IF ~is_success(disp.status) THEN HttpResponseError(disp.status, body)
    ELSE IF ~body.ok THEN ErrReqwest("body")
    ELSE LET d == JsonDeserialize(body.bytes, shape)
         IN IF d.ok THEN Ok(d.val) ELSE ErrReqwest("decode")

get_opt_response_json(disp, body, shape) ==
    LET r == get_response_json(disp, body, shape)
    IN IF r.tag = "Ok" THEN SomeOf(r.value)
       ELSE IF r.tag = "HttpResponse" /\ r.status = 404 THEN NoneOf
       ELSE r

\* Mutant: the binary failure is reported as get_response reports it.
get_response_hex_coarse(disp, body) ==
    IF ~disp.ok THEN ErrReqwest("request")
    ELSE IF ~is_success(disp.status) THEN HttpResponseError(disp.status, body)
    ELSE IF ~body.ok THEN ErrReqwest("body")
    ELSE LET h == FromHex(body.bytes)
         IN IF ~h.ok THEN ErrHex
            ELSE LET d == ConsensusDeserialize(h.val)
                 IN IF d.ok THEN Ok(d.val) ELSE ErrInvalidServerData

get_response_hex(disp, body) ==
    IF ~disp.ok THEN ErrReqwest("request")
    ELSE IF ~is_success(disp.status) THEN HttpResponseError(disp.status, body)
    ELSE IF ~body.ok THEN ErrReqwest("body")
    ELSE LET h == FromHex(body.bytes)
         IN IF ~h.ok THEN ErrHex
            ELSE LET d == ConsensusDeserialize(h.val)
                 IN IF d.ok THEN Ok(d.val) ELSE ErrBitcoinEncoding

get_response_text(disp, body) ==
    IF ~disp.ok THEN ErrReqwest("request")
    ELSE IF ~is_success(disp.status) THEN HttpResponseError(disp.status, body)
    ELSE IF ~body.ok THEN ErrReqwest("body")
    ELSE Ok(body.bytes)

\* Mutant: every HTTP error status is taken for "not found".
get_opt_response_text_any(disp, body) ==
    LET r == get_response_text(disp, body)
    IN IF r.tag = "Ok" THEN SomeOf(r.value)
       ELSE IF r.tag = "HttpResponse" THEN NoneOf
       ELSE r

get_opt_response_text(disp, body) ==
    LET r == get_response_text(disp, body)
    IN IF r.tag = "Ok" THEN SomeOf(r.value)
       ELSE IF r.tag = "HttpResponse" /\ r.status = 404 THEN NoneOf
       ELSE r

\* The body of a 2xx response to a POST is not read.
post_request_hex(disp, body) ==
    IF ~disp.ok THEN ErrReqwest("request")
    ELSE IF ~is_success(disp.status) THEN HttpResponseError(disp.status, body)
    ELSE Ok(<< >>)

(***************************************************************************)
(* The endpoint methods.                                                   *)
(***************************************************************************)
tx(disp, body) == get_opt_response(disp, body)

\* Mutant: every failure of tx is reported as "not found".
tx_no_opt_catch_all(txid, disp, body) ==
    LET r == tx(disp, body)
    IN IF r.tag = "Some" THEN Ok(r.value) ELSE ErrTransactionNotFound(txid)

tx_no_opt(txid, disp, body) ==
    LET r == tx(disp, body)
    IN IF r.tag = "Some" THEN Ok(r.value)
       ELSE IF r.tag = "None" THEN ErrTransactionNotFound(txid)
       ELSE r

\* Mutant: a text that is no txid is taken for "no such transaction".
txid_at_block_index_lenient(disp, body) ==
    LET r == get_opt_response_text(disp, body)
    IN IF r.tag = "Some"
       THEN LET h == HashFromStr(r.value)
            IN IF h.ok THEN SomeOf(h.val) ELSE NoneOf
       ELSE r

txid_at_block_index(disp, body) ==
    LET r == get_opt_response_text(disp, body)
    IN IF r.tag = "Some"
       THEN LET h == HashFromStr(r.value)
            IN IF h.ok THEN SomeOf(h.val) ELSE ErrHex
       ELSE r

header_by_hash(disp, body) == get_response_hex(disp, body)

height(disp, body) ==
    LET r == get_response_text(disp, body)
    IN IF r.tag = "Ok"
       THEN LET n == U32FromStr(r.value)
            IN IF n.ok THEN Ok(n.val) ELSE ErrParsing
       ELSE r

\* tip_hash and block_hash: the text parsed as a block hash.
hash_text(disp, body) ==
    LET r == get_response_text(disp, body)
    IN IF r.tag = "Ok"
       THEN LET h == HashFromStr(r.value)
            IN IF h.ok THEN Ok(h.val) ELSE ErrHex
       ELSE r

\* Mutant: the emptiness check is missing.
blocks_allow_empty(disp, body) == get_response_json(disp, body, "array")

blocks(disp, body) ==
    LET r == get_response_json(disp, body, "array")
    IN IF r.tag = "Ok" /\ r.value = << >> THEN ErrInvalidServerData ELSE r

broadcast(disp, body) == post_request_hex(disp, body)

JsonOptEndpoints == {"tx_info", "merkle_proof", "output_status"}
JsonObjectEndpoints == {"tx_status", "block_status", "address_stats", "fee_estimates"}
JsonArrayEndpoints == {"address_txs", "scripthash_txs", "address_utxo", "scripthash_utxo"}
HashTextEndpoints == {"tip_hash", "block_hash"}

Endpoints ==
    {"tx", "tx_no_opt", "txid_at_block_index", "header_by_hash", "height",
     "blocks", "broadcast"}
    \cup JsonOptEndpoints \cup JsonObjectEndpoints \cup JsonArrayEndpoints
    \cup HashTextEndpoints

\* The result of endpoint e, called with txid, for a dispatch and a body.
EndpointResult(e, txid, disp, body) ==
    CASE e = "tx" -> tx(disp, body)
      [] e = "tx_no_opt" -> tx_no_opt(txid, disp, body)
      [] e = "txid_at_block_index" -> txid_at_block_index(disp, body)
      [] e = "header_by_hash" -> header_by_hash(disp, body)
      [] e = "height" -> height(disp, body)
      [] e \in HashTextEndpoints -> hash_text(disp, body)
      [] e = "blocks" -> blocks(disp, body)
      [] e = "broadcast" -> broadcast(disp, body)
      [] e \in JsonOptEndpoints -> get_opt_response_json(disp, body, "object")
      [] e \in JsonObjectEndpoints -> get_response_json(disp, body, "object")
      [] e \in JsonArrayEndpoints -> get_response_json(disp, body, "array")

\* The HTTP method of the request an endpoint sends.
Method(e) == IF e = "broadcast" THEN "POST" ELSE "GET"

\* Mutant: the POST goes through the retry loop too.
UsesRetryAlways(e) == TRUE

\* Whether the endpoint's request goes through get_with_retry.
UsesRetry(e) == e # "broadcast"

\* Whether the caller of the dispatcher reads the body of a response.
ReadsBody(e, status) == ~(e = "broadcast" /\ is_success(status))

\* The endpoints whose path carries a transaction id the model tracks.
TxidEndpoints == {"tx", "tx_no_opt"}

(***************************************************************************)
(* The environment: what the server may answer and what a body may hold.   *)
(***************************************************************************)
Statuses == {200, 299, 300, 400, 404, 429, 500, 502, 503}

\* 64 zeros: the text of a 32-byte hash.
HashText == [i \in 1..(2 * HashBytes) |-> 48]

Bodies ==
    { << >>,
      << 1, 7 >>,              \* the consensus encoding of the object <<7>>
      << 9 >>,                 \* no consensus encoding
      << 48, 49, 48, 55 >>,    \* "0107": hex of the encoding of <<7>>
      << 48, 57 >>,            \* "09": valid hex, no consensus encoding
      << 122, 122 >>,          \* "zz": not hex
      << 48 >>,                \* "0": an odd number of hex digits
      JsonObject, JsonEmptyArray, JsonOneArray,
      HashText }

BodyOutcomes == { BodyOf(b) : b \in Bodies } \cup { BodyFailed }

(***************************************************************************)
(* State.                                                                  *)
(*   client          the AsyncClient: url and max_retries                  *)
(*   serverStatuses  the statuses the server answers with                  *)
(*   calls           per call: the position (pc), the endpoint and its     *)
(*                   arguments, the locals of get_with_retry (attempts,    *)
(*                   delay), the requests sent (reqs), the statuses        *)
(*                   received (statuses), the durations handed to          *)
(*                   S::sleep (sleeps), the status get_with_retry returned *)
(*                   (final, 0 before), whether the transport failed       *)
(*                   (failed), the body read (body) and the result;        *)
(*                   timer is the future S::sleep returned ("off" when     *)
(*                   there is none, "armed" while it is pending, "fired"   *)
(*                   once it is ready); dropped tells that the caller      *)
(*                   dropped the future of the call.                       *)
(*   marker          per call, the Sleeper S of the AsyncClient<S> the     *)
(*                   call is made on (the type behind PhantomData<S>)      *)
(*   built           how the client was built: the constructor and the     *)
(*                   count given to Builder::max_retries, if any           *)
(*   server          a server that stores transactions: its store and,     *)
(*                   per call, the reply to the request it handled last    *)
(*   fee             an application of convert_fee_rate: the target, the   *)
(*                   estimates and the Option<f32> returned                *)
(***************************************************************************)
VARIABLES client, serverStatuses, calls, marker, built, server, fee

vars == << client, serverStatuses, calls, marker, built, server, fee >>

\* What no step of a call against an arbitrary server changes.
others == << client, serverStatuses, marker, built, server, fee >>

BaseUrl == "https://esplora"

IdleCall ==
    [pc |-> "idle", endpoint |-> "", txid |-> 0,
     attempts |-> 0, delay |-> BASE_BACKOFF_MILLIS,
     reqs |-> << >>, statuses |-> << >>, sleeps |-> << >>,
     final |-> 0, failed |-> FALSE, body |-> BodyFailed, result |-> Pending,
     timer |-> "off", dropped |-> FALSE]

\* AsyncClient::from_builder with Builder::max_retries(n).
from_builder(n) == [url |-> BaseUrl, max_retries |-> n]

\* Mutant: a client wrapped around a reqwest Client does not retry.
from_client_no_retries == [url |-> BaseUrl, max_retries |-> 0]

\* AsyncClient::from_client.
from_client == [url |-> BaseUrl, max_retries |-> DEFAULT_MAX_RETRIES]

\* Config::default, Builder::new, Builder::from_config and
\* Builder::max_retries, as far as the retry count goes.
Config_default == [max_retries |-> DEFAULT_MAX_RETRIES]

Builder_new == [base_url |-> BaseUrl, max_retries |-> DEFAULT_MAX_RETRIES]

Builder_from_config(config) == [base_url |-> BaseUrl, max_retries |-> config.max_retries]

Builder_max_retries(builder, count) == [builder EXCEPT !.max_retries = count]

\* The ways a client is built: by a constructor alone, or with a call of
\* Builder::max_retries(count) before the build.
DefaultPaths == {"Builder::new", "Config::default", "from_client"}
Explicit(count) == [path |-> "Builder::max_retries", count |-> count]
ByDefault(path) == [path |-> path, count |-> 0]

\* The client a way of building yields.
ClientBuilt(b) ==
    CASE b.path = "Builder::new" -> from_builder(Builder_new.max_retries)
      [] b.path = "Config::default" ->
             from_builder(Builder_from_config(Config_default).max_retries)
      [] b.path = "from_client" -> from_client
      [] b.path = "Builder::max_retries" ->
             from_builder(Builder_max_retries(Builder_new, b.count).max_retries)

\* The Sleepers a client is built with: tokio's timed DefaultSleeper, and
\* one whose future is ready at once.
Sleepers == {"DefaultSleeper", "ImmediateSleeper"}

\* S::sleep(dur): the state of the future it returns.
Sleep(S) == IF S = "ImmediateSleeper" THEN "fired" ELSE "armed"

\* The storing server before any request, and no application of
\* convert_fee_rate.
NoReply == [n |-> 0, status |-> 0, body |-> << >>]
EmptyServer == [store |-> {}, replies |-> [c \in CallIds |-> NoReply]]
NoFee == [target |-> 0, estimates |-> << >>, applied |-> FALSE, result |-> None]

Init ==
    /\ \E n \in 0..MaxRetriesBound :
           /\ built = Explicit(n)
           /\ client = from_builder(n)
    /\ serverStatuses = Statuses
    /\ calls = [c \in CallIds |-> IdleCall]
    /\ \E S \in Sleepers : marker = [c \in CallIds |-> S]
    /\ server = EmptyServer
    /\ fee = NoFee

\* A server that answers every request with one and the same retryable
\* status; the client is built in any of the ways, its Sleeper is immediate.
InitFixed ==
    /\ built \in { Explicit(n) : n \in 0..DeepRetries }
                 \cup { ByDefault(path) : path \in DefaultPaths }
    /\ client = ClientBuilt(built)
    /\ \E s \in RETRYABLE_ERROR_CODES : serverStatuses = {s}
    /\ calls = [c \in CallIds |-> IdleCall]
    /\ marker = [c \in CallIds |-> "ImmediateSleeper"]
    /\ server = EmptyServer
    /\ fee = NoFee

\* The arguments an endpoint is called with: a transaction id for the tx
\* lookups, the transaction (of payload <<t>>) for broadcast, and for
\* blocks the Option<u32>: 0 is None, h + 1 is Some(h).
ArgsOf(e) ==
    IF e \in TxidEndpoints \cup {"broadcast"} THEN Txids
    ELSE IF e = "blocks" THEN 0..NumHeights
    ELSE {0}

\* The path an endpoint requests: the route and the value formatted into it.
PathOf(e, arg) ==
    CASE e \in TxidEndpoints -> [route |-> "/tx/{txid}/raw", arg |-> arg]
      [] e = "broadcast" -> [route |-> "/tx", arg |-> 0]
      [] e = "blocks" ->
             IF arg = 0 THEN [route |-> "/blocks", arg |-> 0]
             ELSE [route |-> "/blocks/{height}", arg |-> arg - 1]
      [] OTHER -> [route |-> e, arg |-> 0]

\* Mutant: the transaction is posted as raw bytes, not as hex.
RequestOfRaw(e, txid) ==
    [method |-> Method(e),
     path |-> PathOf(e, txid),
     body |-> IF e = "broadcast" THEN ConsensusSerialize(<< txid >>) ELSE << >>]

\* The request an endpoint sends: broadcast posts the hex of the encoding.
RequestOf(e, txid) ==
    [method |-> Method(e),
     path |-> PathOf(e, txid),
     body |-> IF e = "broadcast" THEN ToHex(ConsensusSerialize(<< txid >>)) ELSE << >>]

\* Mutant: one retry too many.
ShouldRetryInclusive(attempts, max_retries, status) ==
    attempts <= max_retries /\ is_status_retryable(status)

\* The match guard of get_with_retry.
ShouldRetry(attempts, max_retries, status) ==
    attempts < max_retries /\ is_status_retryable(status)

(***************************************************************************)
(* Actions.                                                                *)
(***************************************************************************)
\* The caller invokes endpoint e: the locals of get_with_retry are set.
StartCall(c, e, t) ==
    /\ calls[c].pc = "idle"
    /\ calls' = [calls EXCEPT ![c] =
                    [@ EXCEPT !.pc = "send", !.endpoint = e, !.txid = t,
                              !.attempts = 0, !.delay = BASE_BACKOFF_MILLIS]]
    /\ UNCHANGED others

\* Mutant: the next attempt is sent while the suspension is still pending.
SendRequestDuringSleep(c) ==
    /\ calls[c].pc \in {"send", "sleep"}
    /\ calls' = [calls EXCEPT ![c] =
                    [@ EXCEPT !.pc = "await",
                              !.reqs = Append(@, RequestOf(calls[c].endpoint, calls[c].txid))]]
    /\ UNCHANGED others

\* self.client.get(url).send() or self.client.post(url).body(body).send().
SendRequest(c) ==
    /\ calls[c].pc = "send"
    /\ calls' = [calls EXCEPT ![c] =
                    [@ EXCEPT !.pc = "await",
                              !.reqs = Append(@, RequestOf(calls[c].endpoint, calls[c].txid))]]
    /\ UNCHANGED others

\* The awaited send yields a response: retry after a sleep, or return it.
RecvResponse(c, status) ==
    /\ calls[c].pc = "await"
    /\ status \in serverStatuses
    /\ LET k == calls[c]
           e == k.endpoint
       IN calls' = [calls EXCEPT ![c] =
              IF UsesRetry(e) /\ ShouldRetry(k.attempts, client.max_retries, status)
              THEN [k EXCEPT !.pc = "sleep",
                             !.statuses = Append(@, status),
                             !.sleeps = Append(@, k.delay),
                             !.timer = Sleep(marker[c])]
              ELSE IF ReadsBody(e, status)
              THEN [k EXCEPT !.pc = "body",
                             !.statuses = Append(@, status),
                             !.final = status]
              ELSE [k EXCEPT !.pc = "done",
                             !.statuses = Append(@, status),
                             !.final = status,
                             !.result = EndpointResult(e, k.txid, Dispatched(status), BodyFailed)]]
    /\ UNCHANGED others

\* Mutant: a transport failure is retried after a backoff like a status.
TransportFailRetried(c) ==
    /\ calls[c].pc = "await"
    /\ LET k == calls[c]
       IN calls' = [calls EXCEPT ![c] =
              [k EXCEPT !.pc = "sleep", !.failed = TRUE,
                        !.sleeps = Append(@, k.delay),
                        !.timer = Sleep(marker[c])]]
    /\ UNCHANGED others

\* The awaited send fails in the transport: `?` returns the error.
TransportFail(c) ==
    /\ calls[c].pc = "await"
    /\ LET k == calls[c]
       IN calls' = [calls EXCEPT ![c] =
              [k EXCEPT !.pc = "done", !.failed = TRUE,
                        !.result = EndpointResult(k.endpoint, k.txid, DispatchFailed, BodyFailed)]]
    /\ UNCHANGED others

\* The timer of tokio::time::sleep expires: the pending future is ready.
TimerFire(c) ==
    /\ calls[c].pc = "sleep"
    /\ calls[c].timer = "armed"
    /\ calls' = [calls EXCEPT ![c] = [@ EXCEPT !.timer = "fired"]]
    /\ UNCHANGED others

\* Mutant: the attempt count is kept in the client, shared by its calls.
WakeSharedAttempts(c) ==
    /\ calls[c].pc = "sleep"
    /\ calls[c].timer = "fired"
    /\ LET k == calls[c]
           d == DurationCheckedMul(k.delay, 2)
       IN calls' = [x \in CallIds |->
              IF x # c THEN [calls[x] EXCEPT !.attempts = @ + 1]
              ELSE IF d.some
              THEN [k EXCEPT !.pc = "send", !.attempts = @ + 1, !.delay = d.val,
                             !.timer = "off"]
              ELSE [k EXCEPT !.pc = "panicked", !.attempts = @ + 1, !.timer = "off"]]
    /\ UNCHANGED others

\* Mutant: with a Sleeper that does not wait, the delay is not doubled.
WakeKeepsDelayWhenImmediate(c) ==
    /\ calls[c].pc = "sleep"
    /\ calls[c].timer = "fired"
    /\ LET k == calls[c]
           d == IF marker[c] = "ImmediateSleeper"
                THEN [some |-> TRUE, val |-> k.delay]
                ELSE DurationCheckedMul(k.delay, 2)
       IN calls' = [calls EXCEPT ![c] =
              IF d.some
              THEN [k EXCEPT !.pc = "send", !.attempts = @ + 1, !.delay = d.val,
                             !.timer = "off"]
              ELSE [k EXCEPT !.pc = "panicked", !.attempts = @ + 1, !.timer = "off"]]
    /\ UNCHANGED others

\* The future of S::sleep(delay) is ready: attempts += 1; delay *= 2 (which
\* panics when the Duration overflows).
Wake(c) ==
    /\ calls[c].pc = "sleep"
    /\ calls[c].timer = "fired"
    /\ LET k == calls[c]
           d == DurationCheckedMul(k.delay, 2)
       IN calls' = [calls EXCEPT ![c] =
              IF d.some
              THEN [k EXCEPT !.pc = "send", !.attempts = @ + 1, !.delay = d.val,
                             !.timer = "off"]
              ELSE [k EXCEPT !.pc = "panicked", !.attempts = @ + 1, !.timer = "off"]]
    /\ UNCHANGED others

\* Mutant: a response that does not decode is requested again.
ReadBodyRetrying(c, b) ==
    /\ calls[c].pc = "body"
    /\ LET k == calls[c]
           r == EndpointResult(k.endpoint, k.txid, Dispatched(k.final), b)
       IN calls' = [calls EXCEPT ![c] =
              IF is_success(k.final) /\ IsErr(r)
              THEN [k EXCEPT !.pc = "send", !.body = b]
              ELSE [k EXCEPT !.pc = "done", !.body = b, !.failed = ~b.ok, !.result = r]]
    /\ UNCHANGED others

\* The decoder reads the body of the returned response and decodes it.
ReadBody(c, b) ==
    /\ calls[c].pc = "body"
    /\ LET k == calls[c]
       IN calls' = [calls EXCEPT ![c] =
              [k EXCEPT !.pc = "done", !.body = b, !.failed = ~b.ok,
                        !.result = EndpointResult(k.endpoint, k.txid, Dispatched(k.final), b)]]
    /\ UNCHANGED others

\* Under Spec one call runs on the client.
MainCalls == {1}

Next ==
    \E c \in MainCalls :
        \/ \E e \in Endpoints : \E t \in ArgsOf(e) : StartCall(c, e, t)
        \/ SendRequest(c)
        \/ \E status \in Statuses : RecvResponse(c, status)
        \/ TransportFail(c)
        \/ TimerFire(c)
        \/ Wake(c)
        \/ \E b \in BodyOutcomes : ReadBody(c, b)

Spec == Init /\ [][Next]_vars

\* The endpoints called against the server of InitFixed.
FixedEndpoints == {"height", "broadcast"}

NextFixed ==
    \E c \in MainCalls :
        \/ \E e \in FixedEndpoints : \E t \in ArgsOf(e) : StartCall(c, e, t)
        \/ SendRequest(c)
        \/ \E status \in Statuses : RecvResponse(c, status)
        \/ Wake(c)
        \/ \E b \in BodyOutcomes : ReadBody(c, b)

SpecFixed == InitFixed /\ [][NextFixed]_vars

\* The clients of InitFixed with the largest retry counts, against a
\* server that always answers 503.
InitDeep ==
    /\ InitFixed
    /\ client.max_retries >= DeepRetries - 1
    /\ serverStatuses = {503}

\* One call on such a client, under the provisos that a request sent is
\* eventually answered, a suspension eventually resumes and the task is
\* eventually polled: the call keeps taking the step it can take.
SpecDeepFair == InitDeep /\ [][NextFixed]_vars /\ WF_vars(NextFixed)

(***************************************************************************)
(* Several calls interleaved on one client, against a server that answers  *)
(* 200 or 503.                                                             *)
(***************************************************************************)
ConcStatuses == {200, 503}
ConcEndpoints == {"height", "broadcast"}
\* The text "0", the text "zz", or a failure to read the body.
ConcBodies == { BodyOf(<< 48 >>), BodyOf(<< 122, 122 >>), BodyFailed }

InitConcurrent ==
    /\ \E n \in 0..ConcRetries :
           /\ built = Explicit(n)
           /\ client = ClientBuilt(built)
    /\ serverStatuses = ConcStatuses
    /\ calls = [c \in CallIds |-> IdleCall]
    /\ \E S \in Sleepers : marker = [c \in CallIds |-> S]
    /\ server = EmptyServer
    /\ fee = NoFee

NextConcurrent ==
    \E c \in CallIds :
        \/ \E e \in ConcEndpoints : \E t \in ArgsOf(e) : StartCall(c, e, t)
        \/ SendRequest(c)
        \/ \E status \in ConcStatuses : RecvResponse(c, status)
        \/ TransportFail(c)
        \/ TimerFire(c)
        \/ Wake(c)
        \/ \E b \in ConcBodies : ReadBody(c, b)

SpecConcurrent == InitConcurrent /\ [][NextConcurrent]_vars

(***************************************************************************)
(* Cancellation.  The call is one future: the request in flight, the       *)
(* Sleeper's future and the locals of get_with_retry live inside it and    *)
(* nothing is spawned.  Dropping it at one of its await points (the send,  *)
(* the sleep, the read of the body) drops them all.                        *)
(***************************************************************************)
\* Mutant: the loop runs in a detached task that the drop does not stop.
DropDetached(c) ==
    /\ calls[c].pc \in {"await", "sleep", "body"}
    /\ ~calls[c].dropped
    /\ calls' = [calls EXCEPT ![c] = [@ EXCEPT !.dropped = TRUE]]
    /\ UNCHANGED others

\* The caller drops the future of call c while it is pending.
Drop(c) ==
    /\ calls[c].pc \in {"await", "sleep", "body"}
    /\ ~calls[c].dropped
    /\ calls' = [calls EXCEPT ![c] =
                    [@ EXCEPT !.pc = "dropped", !.timer = "off", !.dropped = TRUE]]
    /\ UNCHANGED others

NextCancel ==
    \E c \in CallIds :
        \/ \E e \in ConcEndpoints : \E t \in ArgsOf(e) : StartCall(c, e, t)
        \/ SendRequest(c)
        \/ \E status \in ConcStatuses : RecvResponse(c, status)
        \/ TransportFail(c)
        \/ TimerFire(c)
        \/ Wake(c)
        \/ \E b \in ConcBodies : ReadBody(c, b)
        \/ Drop(c)

SpecCancel == InitConcurrent /\ [][NextCancel]_vars

(***************************************************************************)
(* Two kinds of client built from one Builder: call 1 runs on the client   *)
(* of build_async_with_sleeper::<ImmediateSleeper>, the other calls on     *)
(* the client of build_async (DefaultSleeper).  They share the Builder's   *)
(* url and max_retries, which is all the variable client holds.            *)
(***************************************************************************)
InitSleeper ==
    /\ \E n \in 0..(ConcRetries + 1) :
           /\ built = Explicit(n)
           /\ client = ClientBuilt(built)
    /\ serverStatuses = ConcStatuses
    /\ calls = [c \in CallIds |-> IdleCall]
    /\ marker = [c \in CallIds |->
                    IF c = 1 THEN "ImmediateSleeper" ELSE "DefaultSleeper"]
    /\ server = EmptyServer
    /\ fee = NoFee

SpecSleeper == InitSleeper /\ [][NextConcurrent]_vars

(***************************************************************************)
(* A server that stores transactions.  On POST /tx it hex-decodes the      *)
(* body and, if that is the encoding of a transaction, stores it and       *)
(* answers 200; on GET /tx/{txid}/raw it answers 200 with the stored       *)
(* encoding of that transaction, or 404.  It may also answer 503 without   *)
(* handling the request.  The transaction of payload <<t>> has txid t.     *)
(***************************************************************************)
StoreStatuses == {200, 400, 404, 503}

TxidOf(raw) == raw[2]

\* The text the server sends with an error status.
ErrorText == << 63 >>

\* The reply to request req, number n of a call, and the store after it.
Serve(req, n, store) ==
    IF req.method = "POST" /\ req.path.route = "/tx"
    THEN LET h == FromHex(req.body)
         IN IF h.ok /\ ConsensusDeserialize(h.val).ok /\ Len(h.val) = 2
            THEN [reply |-> [n |-> n, status |-> 200, body |-> << >>],
                  store |-> store \cup { h.val }]
            ELSE [reply |-> [n |-> n, status |-> 400, body |-> ErrorText],
                  store |-> store]
    ELSE IF req.method = "GET" /\ req.path.route = "/tx/{txid}/raw"
            /\ \E raw \in store : TxidOf(raw) = req.path.arg
    THEN [reply |-> [n |-> n, status |-> 200,
                     body |-> CHOOSE raw \in store : TxidOf(raw) = req.path.arg],
          store |-> store]
    ELSE [reply |-> [n |-> n, status |-> 404, body |-> ErrorText], store |-> store]

\* The request of call c that is in flight has not been handled yet.
Unhandled(c) ==
    calls[c].pc = "await" /\ server.replies[c].n < Len(calls[c].reqs)

\* The server handles the request in flight of call c.
ServerHandle(c) ==
    /\ Unhandled(c)
    /\ LET n == Len(calls[c].reqs)
           r == Serve(calls[c].reqs[n], n, server.store)
       IN server' = [store |-> r.store,
                     replies |-> [server.replies EXCEPT ![c] = r.reply]]
    /\ UNCHANGED << client, serverStatuses, calls, marker, built, fee >>

\* The server is overloaded: it answers 503 and leaves the request alone.
ServerBusy(c) ==
    /\ Unhandled(c)
    /\ server' = [server EXCEPT !.replies[c] =
                      [n |-> Len(calls[c].reqs), status |-> 503, body |-> ErrorText]]
    /\ UNCHANGED << client, serverStatuses, calls, marker, built, fee >>

\* The reply of the server reaches call c.
RecvStored(c) ==
    /\ server.replies[c].n = Len(calls[c].reqs)
    /\ RecvResponse(c, server.replies[c].status)

\* The decoder reads the body the server sent, or fails to.
ReadStored(c) ==
    \E b \in { BodyOf(server.replies[c].body), BodyFailed } : ReadBody(c, b)

\* The caller: broadcast(tx) on call 1 and, once it has returned, tx(txid)
\* on the other calls.
StartBroadcast(t) == StartCall(1, "broadcast", t)

StartLookup(c, t) ==
    /\ c # 1
    /\ calls[1].pc = "done"
    /\ StartCall(c, "tx", t)

InitStore ==
    /\ \E n \in 0..ConcRetries :
           /\ built = Explicit(n)
           /\ client = ClientBuilt(built)
    /\ serverStatuses = StoreStatuses
    /\ calls = [c \in CallIds |-> IdleCall]
    /\ marker = [c \in CallIds |-> "ImmediateSleeper"]
    /\ server = EmptyServer
    /\ fee = NoFee

NextStore ==
    \/ \E t \in Txids : StartBroadcast(t)
    \/ \E c \in CallIds :
        \/ \E t \in Txids : StartLookup(c, t)
        \/ SendRequest(c)
        \/ ServerHandle(c)
        \/ ServerBusy(c)
        \/ RecvStored(c)
        \/ TransportFail(c)
        \/ Wake(c)
        \/ ReadStored(c)

SpecStore == InitStore /\ [][NextStore]_vars

(***************************************************************************)
(* convert_fee_rate applied once to a target and a map of estimates.       *)
(***************************************************************************)
FeeKeys == {0, 1, 3, U16Max}
\* 16777217 = 2^24 + 1 is not an f32.
FeeRates == {2, 5, 16777217}
FeeTargets == 0..MaxTarget \cup {U16Max, U16Max + 1}

\* The maps: every sequence of entries with distinct keys.
FeeMaps ==
    { m \in UNION { [1..n -> [k : FeeKeys, v : FeeRates]] : n \in 0..Cardinality(FeeKeys) } :
        \A i, j \in 1..Len(m) : i # j => m[i].k # m[j].k }

InitFee ==
    /\ built = ByDefault("Builder::new")
    /\ client = ClientBuilt(built)
    /\ serverStatuses = Statuses
    /\ calls = [c \in CallIds |-> IdleCall]
    /\ marker = [c \in CallIds |-> "DefaultSleeper"]
    /\ server = EmptyServer
    /\ \E target \in FeeTargets : \E estimates \in FeeMaps :
           fee = [target |-> target, estimates |-> estimates,
                  applied |-> FALSE, result |-> None]

\* The caller applies convert_fee_rate to its inputs.
ConvertFeeRate ==
    /\ ~fee.applied
    /\ fee' = [fee EXCEPT !.applied = TRUE,
                          !.result = convert_fee_rate(fee.target, fee.estimates)]
    /\ UNCHANGED << client, serverStatuses, calls, marker, built, server >>

SpecFee == InitFee /\ [][ConvertFeeRate]_vars

(***************************************************************************)
(* Vocabulary of the properties.                                           *)
(***************************************************************************)
\* The decoding strategy an endpoint's response goes through.
Strategy(e) ==
    CASE e \in {"tx", "tx_no_opt"} -> "binary"
      [] e = "header_by_hash" -> "hex"
      [] e \in {"txid_at_block_index", "height"} \cup HashTextEndpoints -> "text"
      [] e \in {"blocks"} \cup JsonOptEndpoints \cup JsonObjectEndpoints
               \cup JsonArrayEndpoints -> "json"
      [] e = "broadcast" -> "post"

\* The endpoints that call an optional variant of a decoder.
OptionalEndpoints == {"tx", "txid_at_block_index"} \cup JsonOptEndpoints

\* What get_with_retry (or the POST) handed to the decoder of call k.
DispatchOf(k) == IF k.final # 0 THEN Dispatched(k.final) ELSE DispatchFailed

\* 2^e as a u128 of eight limbs.
Pow2Limbs(e) == [j \in 1..8 |-> IF j - 1 = e \div 16 THEN 2 ^ (e % 16) ELSE 0]

\* 256 * 2^(i-1) milliseconds, the i-th backoff, as a u128 of eight limbs.
ExpectedBackoffMillis(i) == MulFrom(Pow2Limbs(i - 1), 256, 1, 0).digits

\* The call has ended: it returned or it panicked.
Ended(k) == k.pc \in {"done", "panicked"}

\* get_with_retry has returned a response to the decoder.
Returned(k) == k.final # 0

\* The requests of call k that are sent and neither answered nor failed.
InFlight(k) ==
    Len(k.reqs) - Len(k.statuses) - (IF k.failed /\ ~Returned(k) THEN 1 ELSE 0)

(***************************************************************************)
(* C1.  With max_retries = N and a server that answers every attempt of a  *)
(* GET call with one status of {429, 500, 503}, the call never ends        *)
(* otherwise than by get_with_retry returning: once it has returned or     *)
(* the call has ended, N+1 requests were sent, N suspensions were asked    *)
(* for, the i-th of 256 * 2^(i-1) ms, and the response returned is the     *)
(* (N+1)-th (no attempt failing in the transport).  Checked under          *)
(* SpecFixed, where N ranges to DeepRetries.                               *)
(***************************************************************************)
C1_FixedStatusRetries ==
    \A c \in CallIds :
        LET k == calls[c]
            N == client.max_retries
        IN (k.endpoint # "" /\ Method(k.endpoint) = "GET"
            /\ (Returned(k) \/ Ended(k))
            /\ (k.failed => Returned(k))
            /\ \E s \in {429, 500, 503} :
                   \A i \in 1..Len(k.statuses) : k.statuses[i] = s)
           => /\ k.pc # "panicked"
              /\ Len(k.reqs) = N + 1
              /\ Len(k.statuses) = N + 1
              /\ Len(k.sleeps) = N
              /\ \A i \in 1..N :
                     DurationAsMillis(k.sleeps[i]) = ExpectedBackoffMillis(i)
              /\ k.final = k.statuses[N + 1]

\* The same statement for the N the Duration can carry: it holds for every
\* N <= 65, the 66th doubling being the first to overflow.
C1_WithinDurationRange ==
    client.max_retries <= 65 => C1_FixedStatusRetries

(***************************************************************************)
(* C2.  When the first response of a call has a status outside             *)
(* {429, 500, 503}, that response is returned after exactly one request    *)
(* and with no suspension, whatever max_retries is.                        *)
(***************************************************************************)
C2_NonRetryableFirstResponse ==
    \A c \in CallIds :
        LET k == calls[c]
        IN (Len(k.statuses) >= 1 /\ k.statuses[1] \notin {429, 500, 503})
           => /\ k.pc \in {"body", "done"}
              /\ Len(k.reqs) = 1
              /\ Len(k.statuses) = 1
              /\ k.sleeps = << >>
              /\ k.attempts = 0
              /\ k.final = k.statuses[1]

\* A GET call with retries to spare ended on a first response of 502.
C2_Witness ==
    \E c \in CallIds :
        /\ calls[c].pc = "done"
        /\ Method(calls[c].endpoint) = "GET"
        /\ client.max_retries >= 1
        /\ calls[c].statuses = << 502 >>
        /\ calls[c].final = 502

(***************************************************************************)
(* C3.  A transport failure on any attempt ends the call at once with the  *)
(* transport error (Error::Reqwest): the call is done, no suspension       *)
(* follows the failed attempt and no request follows it, so every request  *)
(* but the failed one was answered and every suspension precedes a         *)
(* request; the retries left are not used.                                 *)
(***************************************************************************)
C3_TransportFailureEndsCall ==
    \A c \in CallIds :
        LET k == calls[c]
        IN k.failed
           => /\ k.pc = "done"
              /\ k.result = ErrReqwest(IF Returned(k) THEN "body" ELSE "request")
              /\ Len(k.sleeps) = Len(k.reqs) - 1
              /\ Len(k.statuses) = Len(k.reqs) - (IF Returned(k) THEN 0 ELSE 1)
              /\ k.attempts = Len(k.sleeps)
              /\ k.attempts <= client.max_retries

\* The second attempt failed in the transport while a retry was left.
C3_Witness ==
    \E c \in CallIds :
        /\ calls[c].failed
        /\ ~Returned(calls[c])
        /\ Len(calls[c].reqs) = 2
        /\ calls[c].attempts < client.max_retries
        /\ calls[c].result.tag = "Reqwest"

(***************************************************************************)
(* C4 as stated.  Each of the four strategies (binary, hex, JSON, text)    *)
(* has an optional variant: whenever a call has ended on a response whose  *)
(* body was read, some endpoint of the same strategy maps that response    *)
(* to the empty result if its status is 404 and to an error if it is any   *)
(* other non-2xx status.                                                   *)
(***************************************************************************)
C4_EveryStrategyHasOptional ==
    \A c \in CallIds :
        LET k == calls[c]
        IN (k.pc = "done" /\ Returned(k) /\ k.body.ok /\ ~is_success(k.final)
            /\ Strategy(k.endpoint) \in {"binary", "hex", "json", "text"})
           => \E e \in Endpoints :
                  /\ Strategy(e) = Strategy(k.endpoint)
                  /\ LET r == EndpointResult(e, k.txid, Dispatched(k.final), k.body)
                     IN IF k.final = 404 THEN r = NoneOf ELSE IsErr(r)

(***************************************************************************)
(* C4 as amended.  Three of the four strategies (binary, JSON, text) have  *)
(* an optional variant; the hex strategy has none, and header_by_hash      *)
(* answers a 404 with Error::HttpResponse.  For every endpoint of an       *)
(* optional variant, a final response of status 404 whose body was read    *)
(* gives the empty result, and one of any other non-2xx status gives an    *)
(* error, never the empty result.                                          *)
(***************************************************************************)
C4_OptionalVariants ==
    /\ { Strategy(e) : e \in OptionalEndpoints } = {"binary", "json", "text"}
    /\ \A c \in CallIds :
        LET k == calls[c]
        IN (k.pc = "done" /\ Returned(k) /\ k.body.ok /\ ~is_success(k.final))
           => /\ (k.endpoint \in OptionalEndpoints /\ k.final = 404)
                    => k.result = NoneOf
              /\ (k.endpoint \in OptionalEndpoints /\ k.final # 404)
                    => k.result = ErrHttpResponse(k.final, k.body.bytes)
              /\ (Strategy(k.endpoint) = "hex" /\ k.final = 404)
                    => k.result = ErrHttpResponse(404, k.body.bytes)

\* The optional text variant ended on a 404 and gave the empty result.
C4_Witness ==
    \E c \in CallIds :
        /\ calls[c].pc = "done"
        /\ calls[c].endpoint = "txid_at_block_index"
        /\ calls[c].final = 404
        /\ calls[c].body.ok
        /\ calls[c].result = NoneOf

(***************************************************************************)
(* C5 as stated.  Every endpoint method, broadcast included, goes through  *)
(* the retry loop: whenever its i-th response (i <= max_retries) has a     *)
(* status of {429, 500, 503}, the call has suspended an i-th time, for     *)
(* the delay of that attempt.                                              *)
(***************************************************************************)
C5_EveryEndpointRetries ==
    \A c \in CallIds :
        LET k == calls[c]
        IN \A i \in 1..Len(k.statuses) :
               (i <= client.max_retries /\ k.statuses[i] \in {429, 500, 503})
               => /\ Len(k.sleeps) >= i
                  /\ DurationAsMillis(k.sleeps[i]) = ExpectedBackoffMillis(i)

(***************************************************************************)
(* C5 as amended.  Every GET endpoint goes through the retry loop as       *)
(* above, and each suspension is followed by one more GET.  broadcast      *)
(* (POST /tx with the hex body) does not: it sends one request, never      *)
(* suspends, and its first response is final; a non-2xx one, a status of   *)
(* {429, 500, 503} included, is returned as Error::HttpResponse.           *)
(***************************************************************************)
C5_GetRetriesPostDoesNot ==
    \A c \in CallIds :
        LET k == calls[c]
        IN IF k.endpoint = "broadcast"
           THEN /\ Len(k.reqs) <= 1
                /\ \A i \in 1..Len(k.reqs) :
                       /\ k.reqs[i].method = "POST"
                       /\ k.reqs[i].body = ToHex(ConsensusSerialize(<< k.txid >>))
                /\ k.sleeps = << >>
                /\ k.attempts = 0
                /\ Len(k.statuses) <= 1
                /\ (Len(k.statuses) = 1 => k.final = k.statuses[1])
                /\ (k.pc = "done" /\ Returned(k) /\ ~is_success(k.final) /\ k.body.ok)
                       => k.result = ErrHttpResponse(k.final, k.body.bytes)
           ELSE /\ \A i \in 1..Len(k.statuses) :
                       (i <= client.max_retries /\ k.statuses[i] \in {429, 500, 503})
                       => /\ Len(k.sleeps) >= i
                          /\ DurationAsMillis(k.sleeps[i]) = ExpectedBackoffMillis(i)
                /\ \A i \in 1..Len(k.reqs) :
                       k.reqs[i].method = "GET" /\ k.reqs[i].body = << >>
                /\ (k.pc \in {"await", "body", "done"} /\ Len(k.reqs) > 0)
                       => Len(k.reqs) = Len(k.sleeps) + 1

\* broadcast got a 503 with retries configured and returned it as an error.
C5_Witness ==
    \E c \in CallIds :
        /\ calls[c].pc = "done"
        /\ calls[c].endpoint = "broadcast"
        /\ client.max_retries >= 1
        /\ calls[c].statuses = << 503 >>
        /\ calls[c].sleeps = << >>
        /\ calls[c].result.tag = "HttpResponse"
        /\ calls[c].result.status = 503

(***************************************************************************)
(* C6.  When the response get_with_retry (or the POST) returned has a      *)
(* non-2xx status, its body was read, and it is not a 404 intercepted by   *)
(* an optional variant (tx_no_opt calls the optional tx), the call         *)
(* returns Error::HttpResponse with the status of that last response and   *)
(* its body text as the message: the body is not decoded.                  *)
(***************************************************************************)
C6_HttpErrorKeepsStatusAndBody ==
    \A c \in CallIds :
        LET k == calls[c]
        IN (k.pc = "done" /\ Returned(k) /\ k.body.ok /\ ~is_success(k.final)
            /\ ~(k.final = 404 /\ k.endpoint \in OptionalEndpoints \cup {"tx_no_opt"}))
           => /\ k.result.tag = "HttpResponse"
              /\ k.result.status = k.statuses[Len(k.statuses)]
              /\ k.result.message = k.body.bytes
              /\ k.result.value = << >>

\* After the retries ran out on 500 a body that would decode is kept as text.
C6_Witness ==
    \E c \in CallIds :
        /\ calls[c].pc = "done"
        /\ calls[c].endpoint = "tx_status"
        /\ calls[c].attempts = client.max_retries
        /\ client.max_retries >= 1
        /\ calls[c].final = 500
        /\ calls[c].body = BodyOf(JsonObject)
        /\ calls[c].result = ErrHttpResponse(500, JsonObject)

(***************************************************************************)
(* C7.  In every state of a call the attempt count is at most              *)
(* max_retries; before the first request it is 0 and the delay is the      *)
(* base delay; and no step of the call changes the delay other than by     *)
(* doubling it.                                                            *)
(***************************************************************************)
C7_RetryStateBounds ==
    /\ [](\A c \in CallIds :
              /\ calls[c].attempts <= client.max_retries
              /\ calls[c].reqs = << >>
                    => /\ calls[c].attempts = 0
                       /\ DurationAsMillis(calls[c].delay) = ExpectedBackoffMillis(1))
    /\ [][\A c \in CallIds :
              calls[c].pc # "idle"
              => \/ calls'[c].delay = calls[c].delay
                 \/ DurationAsMillis(calls'[c].delay)
                      = MulFrom(DurationAsMillis(calls[c].delay), 2, 1, 0).digits]_vars

\* The call used its last retry: two retries done, the delay at 1024 ms.
C7_Witness ==
    \E c \in CallIds :
        /\ calls[c].attempts = client.max_retries
        /\ calls[c].attempts = 2
        /\ calls[c].delay = DurationFromMillis(1024)

\* The decode error the body of a 2xx response leads to at endpoint e, or
\* Pending when it decodes (stated from the four strategies).
DecodeErrorOf(e, bytes) ==
    CASE Strategy(e) = "binary" ->
             IF ConsensusDeserialize(bytes).ok THEN Pending ELSE ErrInvalidServerData
      [] Strategy(e) = "hex" ->
             IF ~FromHex(bytes).ok THEN ErrHex
             ELSE IF ~ConsensusDeserialize(FromHex(bytes).val).ok THEN ErrBitcoinEncoding
             ELSE Pending
      [] Strategy(e) = "json" ->
             IF JsonDeserialize(bytes,
                    IF e \in {"blocks"} \cup JsonArrayEndpoints THEN "array" ELSE "object").ok
             THEN Pending ELSE ErrReqwest("decode")
      [] Strategy(e) = "text" ->
             IF e = "height"
             THEN (IF U32FromStr(bytes).ok THEN Pending ELSE ErrParsing)
             ELSE (IF HashFromStr(bytes).ok THEN Pending ELSE ErrHex)
      [] OTHER -> Pending

(***************************************************************************)
(* C8.  Once the body of a 2xx response has failed to decode (binary,      *)
(* hex, JSON or text-to-scalar), the call is done with the decode error:   *)
(* that response is the last one, no request and no suspension follow it   *)
(* (every earlier response was a retried one), however many retries are    *)
(* left.                                                                   *)
(***************************************************************************)
C8_DecodeFailureNotRetried ==
    \A c \in CallIds :
        LET k == calls[c]
        IN (Returned(k) /\ is_success(k.final) /\ k.body.ok
            /\ DecodeErrorOf(k.endpoint, k.body.bytes) # Pending)
           => /\ k.pc = "done"
              /\ k.result = DecodeErrorOf(k.endpoint, k.body.bytes)
              /\ Len(k.reqs) = Len(k.statuses)
              /\ Len(k.sleeps) = Len(k.reqs) - 1
              /\ k.statuses[Len(k.statuses)] = k.final
              /\ \A i \in 1..(Len(k.statuses) - 1) : k.statuses[i] \in {429, 500, 503}

\* A first response of 200 with the text "zz" for height, two retries left.
C8_Witness ==
    \E c \in CallIds :
        /\ calls[c].pc = "done"
        /\ calls[c].endpoint = "height"
        /\ client.max_retries = 2
        /\ calls[c].attempts = 0
        /\ calls[c].statuses = << 200 >>
        /\ calls[c].body = BodyOf(<< 122, 122 >>)
        /\ calls[c].result = ErrParsing
        /\ Len(calls[c].reqs) = 1

(***************************************************************************)
(* C9 as stated.  For header_by_hash on a 2xx response, a body that is     *)
(* valid hex but no valid binary encoding gives the InvalidServerData      *)
(* error, and a body that is not valid hex gives the invalid-hex error.    *)
(***************************************************************************)
C9_HexBinaryFailureIsInvalidServerData ==
    \A c \in CallIds :
        LET k == calls[c]
            h == FromHex(k.body.bytes)
        IN (k.pc = "done" /\ k.endpoint = "header_by_hash" /\ Returned(k)
            /\ is_success(k.final) /\ k.body.ok)
           => /\ (h.ok /\ ~ConsensusDeserialize(h.val).ok)
                    => k.result.tag = "InvalidServerData"
              /\ ~h.ok => k.result.tag = "Hex"

(***************************************************************************)
(* C9 as amended.  For header_by_hash on a 2xx response, a body that is    *)
(* valid hex but no valid binary encoding gives Error::BitcoinEncoding     *)
(* (neither InvalidServerData nor the invalid-hex error), a body that is   *)
(* not valid hex gives Error::Hex, and the two are different kinds.        *)
(***************************************************************************)
C9_HexBinaryFailureIsBitcoinEncoding ==
    \A c \in CallIds :
        LET k == calls[c]
            h == FromHex(k.body.bytes)
        IN (k.pc = "done" /\ k.endpoint = "header_by_hash" /\ Returned(k)
            /\ is_success(k.final) /\ k.body.ok)
           => /\ (h.ok /\ ~ConsensusDeserialize(h.val).ok)
                    => /\ k.result = ErrBitcoinEncoding
                       /\ k.result.tag \notin {"InvalidServerData", "Hex"}
              /\ ~h.ok => /\ k.result = ErrHex
                          /\ k.result.tag # "BitcoinEncoding"
              /\ (h.ok /\ ConsensusDeserialize(h.val).ok)
                    => k.result = Ok(ConsensusDeserialize(h.val).val)

\* header_by_hash read "09": valid hex of a byte string that does not decode.
C9_Witness ==
    \E c \in CallIds :
        /\ calls[c].pc = "done"
        /\ calls[c].endpoint = "header_by_hash"
        /\ calls[c].final = 200
        /\ calls[c].body = BodyOf(<< 48, 57 >>)
        /\ FromHex(calls[c].body.bytes).ok
        /\ calls[c].result = ErrBitcoinEncoding

(***************************************************************************)
(* C10.  tx_no_opt(txid) returns TransactionNotFound(txid) with the txid   *)
(* it was called with exactly when tx gives the empty result, which is     *)
(* when the final response is a 404 whose body was read; it returns the    *)
(* transaction when tx gives one, and any error of tx unchanged.           *)
(***************************************************************************)
C10_TxNoOpt ==
    \A c \in CallIds :
        LET k == calls[c]
            r == tx(DispatchOf(k), k.body)
        IN (k.pc = "done" /\ k.endpoint = "tx_no_opt")
           => /\ (k.result.tag = "TransactionNotFound") = (r = NoneOf)
              /\ (r = NoneOf) = (Returned(k) /\ k.final = 404 /\ k.body.ok)
              /\ k.result.tag = "TransactionNotFound" => k.result.txid = k.txid
              /\ r.tag = "Some" => k.result = Ok(r.value)
              /\ IsErr(r) => k.result = r

\* tx_no_opt(2) ended on a 404 after a retry and reports transaction 2.
C10_Witness ==
    \E c \in CallIds :
        /\ calls[c].pc = "done"
        /\ calls[c].endpoint = "tx_no_opt"
        /\ calls[c].txid = 2
        /\ calls[c].statuses = << 503, 404 >>
        /\ calls[c].result = ErrTransactionNotFound(2)

(***************************************************************************)
(* C11.  blocks(height), for height None or Some(h): when the final        *)
(* response is 2xx and its body is a JSON array, the call returns          *)
(* Error::InvalidServerData if the array is empty and the list of          *)
(* summaries as deserialized if it is not; Ok of an empty list is never    *)
(* returned.                                                               *)
(***************************************************************************)
C11_BlocksEmptyArray ==
    \A c \in CallIds :
        LET k == calls[c]
            d == JsonDeserialize(k.body.bytes, "array")
        IN (k.pc = "done" /\ k.endpoint = "blocks")
           => /\ (Returned(k) /\ is_success(k.final) /\ k.body.ok /\ d.ok)
                    => IF d.val = << >> THEN k.result = ErrInvalidServerData
                       ELSE k.result = Ok(d.val)
              /\ k.result.tag = "Ok" => k.result.value # << >>
              /\ \A i \in 1..Len(k.reqs) :
                     k.reqs[i].path.route
                       = (IF k.txid = 0 THEN "/blocks" ELSE "/blocks/{height}")

\* blocks(Some(0)) read "[]" from a 200 and reported InvalidServerData.
C11_Witness ==
    \E c \in CallIds :
        /\ calls[c].pc = "done"
        /\ calls[c].endpoint = "blocks"
        /\ calls[c].txid = 1
        /\ calls[c].final = 200
        /\ calls[c].body = BodyOf(JsonEmptyArray)
        /\ calls[c].result = ErrInvalidServerData

(***************************************************************************)
(* C12.  convert_fee_rate(target, estimates) returns Some exactly when     *)
(* some key of estimates is at most target, and then the f32 of the rate   *)
(* stored under the largest such key; it returns None for the empty map    *)
(* and for target 0 without a key 0.                                       *)
(***************************************************************************)
C12_ConvertFeeRate ==
    fee.applied
    => LET m == fee.estimates
           atMost == { i \in 1..Len(m) : m[i].k <= fee.target }
       IN /\ fee.result.some = (atMost # {})
          /\ \A i \in atMost :
                 (\A j \in atMost : m[j].k <= m[i].k)
                 => fee.result = Some(F64AsF32(m[i].v))
          /\ atMost = {} => fee.result = None

\* Target 2 with keys 3, 1 and 0 in that order: the rate under key 1.
C12_Witness ==
    /\ fee.applied
    /\ fee.target = 2
    /\ fee.estimates = << [k |-> 3, v |-> 2], [k |-> 1, v |-> 16777217], [k |-> 0, v |-> 5] >>
    /\ fee.result = Some(16777216)

(***************************************************************************)
(* C13.  Within one call the attempts are strictly sequential: at most     *)
(* one request of the call is in flight at any time, none while the call   *)
(* is suspended, and a request is sent only when every earlier request     *)
(* has been answered and the suspension after each of these answers has    *)
(* completed (the Sleeper's future ready and consumed, attempts counted).  *)
(***************************************************************************)
C13_AttemptsSequential ==
    /\ [](\A c \in CallIds :
              LET k == calls[c]
              IN /\ InFlight(k) \in {0, 1}
                 /\ (InFlight(k) = 1) = (k.pc = "await")
                 /\ k.timer # "off" => (k.pc = "sleep" /\ InFlight(k) = 0))
    /\ [][\A c \in CallIds :
              Len(calls'[c].reqs) # Len(calls[c].reqs)
              => /\ Len(calls'[c].reqs) = Len(calls[c].reqs) + 1
                 /\ Len(calls[c].statuses) = Len(calls[c].reqs)
                 /\ Len(calls[c].sleeps) = Len(calls[c].reqs)
                 /\ calls[c].attempts = Len(calls[c].reqs)
                 /\ calls[c].timer = "off"
                 /\ calls[c].pc = "send"]_vars

\* The second attempt of a call on a timed Sleeper is in flight.
C13_Witness ==
    \E c \in CallIds :
        /\ calls[c].pc = "await"
        /\ marker[c] = "DefaultSleeper"
        /\ Len(calls[c].reqs) = 2
        /\ Len(calls[c].statuses) = 1
        /\ calls[c].attempts = 1
        /\ InFlight(calls[c]) = 1

\* The responses of call k that the loop of get_with_retry retried.
Retried(k) ==
    { i \in 1..Len(k.statuses) :
        UsesRetry(k.endpoint) /\ i <= client.max_retries
        /\ is_status_retryable(k.statuses[i]) }

(***************************************************************************)
(* C14.  Calls interleaved on one client are independent.  No step         *)
(* changes more than one call (so none changes the attempt count, the      *)
(* delay or the result of another call) and no step changes the client,    *)
(* whose base URL and max_retries stay those of its construction.  What a  *)
(* call has done is a function of the responses to its own requests: it    *)
(* suspended once per retried response of its own, its requests are its    *)
(* responses plus the one in flight or failed, its delay is the base       *)
(* doubled once per attempt, and its result is the one its decoder gives   *)
(* for its own final response.                                             *)
(***************************************************************************)
C14_CallsIndependent ==
    /\ [][/\ \A c, d \in CallIds :
                 (c # d /\ calls'[c] # calls[c]) => calls'[d] = calls[d]
           /\ client' = client]_vars
    /\ [](/\ client = [url |-> BaseUrl, max_retries |-> built.count]
          /\ \A c \in CallIds :
                LET k == calls[c]
                IN k.pc # "idle"
                   => /\ Len(k.sleeps) = Cardinality(Retried(k))
                      /\ Len(k.reqs) = Len(k.statuses)
                             + (IF InFlight(k) = 1 \/ (k.failed /\ ~Returned(k))
                                THEN 1 ELSE 0)
                      /\ k.attempts = Len(k.sleeps) - (IF k.pc = "sleep" THEN 1 ELSE 0)
                      /\ DurationAsMillis(k.delay) = ExpectedBackoffMillis(k.attempts + 1)
                      /\ k.pc = "done"
                            => k.result = EndpointResult(k.endpoint, k.txid,
                                                         DispatchOf(k), k.body))

\* One call is suspended after its first response while another, started
\* on the same client, has got a 200 to its first request.
C14_Witness ==
    \E c, d \in CallIds :
        /\ c # d
        /\ calls[c].pc = "sleep"
        /\ calls[c].attempts = 0
        /\ Len(calls[c].sleeps) = 1
        /\ calls[d].pc = "body"
        /\ calls[d].statuses = << 200 >>
        /\ calls[d].attempts = 0

(***************************************************************************)
(* C15.  The Sleeper can be substituted without changing the retry         *)
(* behaviour.  Take the same call made on a client with the immediate      *)
(* Sleeper and on one with the timed DefaultSleeper.  As long as the two   *)
(* have received the same statuses they have asked their Sleeper for the   *)
(* same durations; and once both have ended on the same responses (the     *)
(* same statuses, the same body or the same transport failure) they have   *)
(* sent the same requests and returned the same result.                    *)
(***************************************************************************)
C15_SleeperSubstitution ==
    \A c, d \in CallIds :
        LET k == calls[c]
            j == calls[d]
        IN (marker[c] # marker[d] /\ k.endpoint = j.endpoint /\ k.txid = j.txid)
           => /\ k.statuses = j.statuses => k.sleeps = j.sleeps
              /\ (Ended(k) /\ Ended(j) /\ k.statuses = j.statuses
                   /\ k.failed = j.failed /\ k.body = j.body)
                    => /\ k.reqs = j.reqs
                       /\ k.result = j.result
                       /\ k.attempts = j.attempts
                       /\ k.delay = j.delay

\* height on both clients: 503, 503, then 200 with the text "0"; both
\* asked for 256 ms and 512 ms and returned the height.
C15_Witness ==
    \E c, d \in CallIds :
        /\ marker[c] = "ImmediateSleeper"
        /\ marker[d] = "DefaultSleeper"
        /\ calls[c].pc = "done" /\ calls[d].pc = "done"
        /\ calls[c].endpoint = "height" /\ calls[d].endpoint = "height"
        /\ calls[c].statuses = << 503, 503, 200 >>
        /\ calls[d].statuses = << 503, 503, 200 >>
        /\ calls[c].sleeps = << DurationFromMillis(256), DurationFromMillis(512) >>
        /\ calls[d].sleeps = calls[c].sleeps
        /\ calls[c].result = Ok(<< 48 >>)
        /\ calls[d].result = Ok(<< 48 >>)

(***************************************************************************)
(* C16.  Round trip against the storing server.  broadcast(tx) that gets   *)
(* an answer other than 503 gets 200, returns Ok and leaves the encoding   *)
(* of tx in the store; and once broadcast(tx) has returned Ok, a call      *)
(* tx(txid of tx) made after it that ends on an answer of the store (no    *)
(* transport failure, the last answer not a 503) returns Some of a         *)
(* transaction equal to tx.                                                *)
(***************************************************************************)
C16_BroadcastThenTx ==
    LET b == calls[1]
    IN (b.pc = "done" /\ b.endpoint = "broadcast")
       => /\ (~b.failed /\ b.final # 503)
                => /\ b.final = 200
                   /\ b.result = Ok(<< >>)
                   /\ ConsensusSerialize(<< b.txid >>) \in server.store
          /\ \A c \in CallIds :
                LET k == calls[c]
                IN (b.result = Ok(<< >>) /\ k.endpoint = "tx" /\ k.txid = b.txid
                    /\ k.pc = "done" /\ ~k.failed /\ k.final # 503)
                   => /\ k.final = 200
                      /\ k.body = BodyOf(ConsensusSerialize(<< b.txid >>))
                      /\ k.result = SomeOf(<< b.txid >>)

\* broadcast of transaction 2 returned Ok, then tx(2), retried after a
\* 503, returned the transaction.
C16_Witness ==
    \E c \in CallIds :
        /\ calls[1].pc = "done"
        /\ calls[1].endpoint = "broadcast"
        /\ calls[1].txid = 2
        /\ calls[1].result = Ok(<< >>)
        /\ calls[c].pc = "done"
        /\ calls[c].endpoint = "tx"
        /\ calls[c].txid = 2
        /\ calls[c].statuses = << 503, 200 >>
        /\ calls[c].result = SomeOf(<< 2 >>)

(***************************************************************************)
(* C17.  For any sequence of responses r_0, r_1, ... and max_retries = N,  *)
(* a GET call whose requests all get a response returns r_i, i the         *)
(* smallest index whose status is outside {429, 500, 503} or i = N: once   *)
(* get_with_retry has returned or the call has ended, the call has not     *)
(* panicked, i + 1 requests were sent and i + 1 responses received, the    *)
(* first i of them retryable, i <= N, the call suspended i times, the      *)
(* j-th time for 256 * 2^(j-1) ms, and the decoder was given r_i alone.    *)
(***************************************************************************)
C17_MixedStatuses ==
    \A c \in CallIds :
        LET k == calls[c]
            N == client.max_retries
            i == Len(k.statuses) - 1
        IN (k.endpoint # "" /\ Method(k.endpoint) = "GET"
            /\ (Returned(k) \/ Ended(k))
            /\ (k.failed => Returned(k)))
           => /\ k.pc # "panicked"
              /\ i >= 0 /\ i <= N
              /\ \A j \in 1..i : k.statuses[j] \in {429, 500, 503}
              /\ k.statuses[i + 1] \notin {429, 500, 503} \/ i = N
              /\ k.final = k.statuses[i + 1]
              /\ Len(k.reqs) = i + 1
              /\ Len(k.sleeps) = i
              /\ \A j \in 1..i :
                     DurationAsMillis(k.sleeps[j]) = ExpectedBackoffMillis(j)
              /\ k.pc = "done"
                    => k.result = EndpointResult(k.endpoint, k.txid,
                                                 Dispatched(k.statuses[i + 1]), k.body)

(***************************************************************************)
(* C18.  Every call terminates: provided each request sent is eventually   *)
(* answered or fails and each suspension eventually resumes, a started     *)
(* call eventually is done, holding exactly one result (a value, the       *)
(* empty result or an error) that never changes afterwards, and it never   *)
(* sends more than max_retries + 1 requests.                               *)
(***************************************************************************)
C18_EveryCallReturns ==
    /\ \A c \in CallIds :
          (calls[c].pc = "send") ~> (calls[c].pc = "done" /\ calls[c].result # Pending)
    /\ [](\A c \in CallIds :
              /\ Len(calls[c].reqs) <= client.max_retries + 1
              /\ (calls[c].result # Pending) = (calls[c].pc = "done"))
    /\ [][\A c \in CallIds :
              calls[c].pc = "done" => calls'[c] = calls[c]]_vars

\* The plain-text endpoints that parse the text into a scalar, and whether
\* the text of a body parses into the scalar of endpoint e.
ScalarTextEndpoints == {"height", "txid_at_block_index"} \cup HashTextEndpoints

ScalarParses(e, text) ==
    IF e = "height" THEN U32FromStr(text).ok ELSE HashFromStr(text).ok

(***************************************************************************)
(* C19 as stated.  For height, tip_hash, block_hash and                    *)
(* txid_at_block_index: when the final response is 2xx and its text does   *)
(* not parse into the scalar, the call returns the parsing error           *)
(* (Error::Parsing), never a value and never the empty result.             *)
(***************************************************************************)
C19_TextParseFailureIsParsing ==
    \A c \in CallIds :
        LET k == calls[c]
        IN (k.pc = "done" /\ k.endpoint \in ScalarTextEndpoints /\ Returned(k)
            /\ is_success(k.final) /\ k.body.ok
            /\ ~ScalarParses(k.endpoint, k.body.bytes))
           => k.result = ErrParsing

(***************************************************************************)
(* C19 as amended.  When the final response is 2xx and its text does not   *)
(* parse into the scalar, height returns Error::Parsing, and tip_hash,     *)
(* block_hash and txid_at_block_index return Error::Hex, the invalid-hex   *)
(* error; none of the four returns a value or the empty result.  When the  *)
(* text parses, the scalar is returned.                                    *)
(***************************************************************************)
C19_TextParseFailureByScalar ==
    \A c \in CallIds :
        LET k == calls[c]
        IN (k.pc = "done" /\ k.endpoint \in ScalarTextEndpoints /\ Returned(k)
            /\ is_success(k.final) /\ k.body.ok)
           => IF ScalarParses(k.endpoint, k.body.bytes)
              THEN k.result.tag = (IF k.endpoint = "txid_at_block_index"
                                   THEN "Some" ELSE "Ok")
              ELSE /\ k.result = (IF k.endpoint = "height" THEN ErrParsing ELSE ErrHex)
                   /\ k.result.tag \notin {"Ok", "Some", "None"}

\* tip_hash read the text "zz" from a 200 and reported the invalid-hex error.
C19_Witness ==
    \E c \in CallIds :
        /\ calls[c].pc = "done"
        /\ calls[c].endpoint = "tip_hash"
        /\ calls[c].final = 200
        /\ calls[c].body = BodyOf(<< 122, 122 >>)
        /\ calls[c].result = ErrHex

(***************************************************************************)
(* C20.  A client built without an explicit retry count (Builder::new,     *)
(* Config::default or AsyncClient::from_client) has max_retries = 6 and    *)
(* starts from a delay of 256 ms: against a server that always answers     *)
(* with a retryable status a GET call of it returns after exactly 7        *)
(* requests and suspensions of 256, 512, 1024, 2048, 4096 and 8192 ms.  A  *)
(* client built after Builder::max_retries(c) has max_retries = c: a call  *)
(* of it never retries more than c times, it suspends only after one of    *)
(* its first c responses, and against that server no response is           *)
(* returned to it before the c-th retry is done.                           *)
(***************************************************************************)
C20_DefaultRetries ==
    /\ built.path \in DefaultPaths
          => /\ client.max_retries = 6
             /\ \A c \in CallIds :
                   LET k == calls[c]
                   IN /\ k.reqs = << >> => k.delay = DurationFromMillis(256)
                      /\ (k.endpoint = "height" /\ (Returned(k) \/ Ended(k)))
                            => /\ Len(k.reqs) = 7
                               /\ k.sleeps = << DurationFromMillis(256),
                                                DurationFromMillis(512),
                                                DurationFromMillis(1024),
                                                DurationFromMillis(2048),
                                                DurationFromMillis(4096),
                                                DurationFromMillis(8192) >>
                               /\ k.final = k.statuses[7]
    /\ built.path = "Builder::max_retries"
          => /\ client.max_retries = built.count
             /\ \A c \in CallIds :
                   LET k == calls[c]
                   IN /\ k.attempts <= built.count
                      /\ (k.endpoint = "height" /\ k.pc = "sleep")
                            => Len(k.statuses) <= built.count
                      /\ (k.endpoint = "height" /\ Returned(k))
                            => k.attempts = built.count

\* A client of AsyncClient::from_client returned the 7th response to height.
C20_Witness ==
    \E c \in CallIds :
        /\ built.path = "from_client"
        /\ calls[c].endpoint = "height"
        /\ calls[c].pc = "done"
        /\ Len(calls[c].reqs) = 7
        /\ Len(calls[c].sleeps) = 6
        /\ calls[c].attempts = 6

(***************************************************************************)
(* C21.  Backoff growth never aborts a call.  For every max_retries = N,   *)
(* with a Sleeper that resolves immediately and a server that always       *)
(* answers with a retryable status: whenever a GET call is suspended, its  *)
(* delay can be doubled in a Duration; the call never panics; and once     *)
(* get_with_retry has returned, all N retries were done and the response   *)
(* returned is the last one, the (N+1)-th.                                 *)
(***************************************************************************)
C21_BackoffNeverAborts ==
    \A c \in CallIds :
        LET k == calls[c]
            N == client.max_retries
        IN (k.endpoint # "" /\ Method(k.endpoint) = "GET"
            /\ marker[c] = "ImmediateSleeper"
            /\ \A i \in 1..Len(k.statuses) : is_status_retryable(k.statuses[i]))
           => /\ k.pc = "sleep" => DurationCheckedMul(k.delay, 2).some
              /\ k.pc # "panicked"
              /\ Returned(k)
                    => /\ k.attempts = N
                       /\ Len(k.statuses) = N + 1
                       /\ k.final = k.statuses[N + 1]

(***************************************************************************)
(* C22.  Cancellation by dropping the call.  A call is dropped only while  *)
(* it is pending (awaiting a response, suspended in a backoff delay, or    *)
(* reading a body).  Once dropped, its suspension is abandoned (no timer   *)
(* is left), it holds no result, and no later step changes it: no request  *)
(* is sent for it and no result is delivered.  The step that drops it      *)
(* sends nothing and changes neither the client nor any other call, and    *)
(* the other calls go on as if alone: what each has done and what it       *)
(* returns is the function of its own responses.                           *)
(***************************************************************************)
C22_DropCancels ==
    /\ [](\A c \in CallIds :
              LET k == calls[c]
              IN IF k.dropped
                 THEN /\ k.pc = "dropped"
                      /\ k.timer = "off"
                      /\ k.result = Pending
                 ELSE /\ k.pc # "dropped"
                      /\ k.pc # "idle"
                            => /\ Len(k.sleeps) = Cardinality(Retried(k))
                               /\ k.attempts = Len(k.sleeps)
                                      - (IF k.pc = "sleep" THEN 1 ELSE 0)
                      /\ k.pc = "done"
                            => k.result = EndpointResult(k.endpoint, k.txid,
                                                         DispatchOf(k), k.body))
    /\ [][\A c \in CallIds :
              /\ calls[c].dropped => calls'[c] = calls[c]
              /\ (calls'[c].dropped /\ ~calls[c].dropped)
                    => /\ calls[c].pc \in {"await", "sleep", "body"}
                       /\ calls'[c].reqs = calls[c].reqs
                       /\ client' = client
                       /\ \A d \in CallIds : d # c => calls'[d] = calls[d]]_vars

\* One call was dropped during its first backoff delay, on a timed
\* Sleeper; another call of the client, retried once, has returned a height.
C22_Witness ==
    \E c, d \in CallIds :
        /\ c # d
        /\ marker[c] = "DefaultSleeper"
        /\ calls[c].dropped
        /\ calls[c].statuses = << 503 >>
        /\ Len(calls[c].sleeps) = 1
        /\ Len(calls[c].reqs) = 1
        /\ calls[c].attempts = 0
        /\ calls[d].pc = "done"
        /\ calls[d].endpoint = "height"
        /\ calls[d].statuses = << 503, 200 >>
        /\ calls[d].result = Ok(<< 48 >>)

=============================================================================
